---- MODULE Spec2Model ----
(***************************************************************************)
(* A model of generate-license-csv.py: the copyright extractor             *)
(* (extract_copyright), the aggregator (parse_yml_to_csv), the writer      *)
(* (write_csv) and the driver (main).                                      *)
(*                                                                         *)
(* A Python str is a sequence of one-character strings; the characters     *)
(* U+00A9 (copyright sign), U+00C2 and U+00E2 are written by their code    *)
(* point.  A Python value that may be None is a pair <<tag, payload>>.     *)
(***************************************************************************)
EXTENDS Integers, Sequences, FiniteSets, TLC

\* ------------------------------------------------------------------ values

Str(s) == <<"str", s>>
None == <<"none", <<>>>>
\* dict.get(key, default) found no key
Missing == <<"missing", <<>>>>
\* a list value (the licenses of an entry); its payload is the list
List(l) == <<"list", l>>
\* the call raised (AttributeError / TypeError on a None)
Raised == <<"raised", <<>>>>

\* dict.get(key, default)
Get(value, default) == IF value = Missing THEN default ELSE value

IsStr(v) == v[1] = "str"
IsList(v) == v[1] = "list"
IsNone(v) == v[1] = "none"
\* Python truthiness of None or a str: `not v`
Falsy(v) == IsNone(v) \/ (IsStr(v) /\ v[2] = <<>>)

\* -------------------------------------------------------------- characters

UpperAZ == <<"A", "B", "C", "D", "E", "F", "G", "H", "I", "J", "K", "L", "M", "N", "O", "P", "Q", "R", "S", "T", "U", "V", "W", "X", "Y", "Z">>
LowerAZ == <<"a", "b", "c", "d", "e", "f", "g", "h", "i", "j", "k", "l", "m", "n", "o", "p", "q", "r", "s", "t", "u", "v", "w", "x", "y", "z">>
Digits == {"0", "1", "2", "3", "4", "5", "6", "7", "8", "9"}

\* The characters of the model in ascending code point order (Python compares
\* str values code point by code point).
CodePointOrder ==
  <<"\t", "\n", "\r", " ", "(", ")", ",", "-", ".", "/">>
  \o <<"0", "1", "2", "3", "4", "5", "6", "7", "8", "9">> \o <<":", ";", "<", ">", "@">> \o UpperAZ
  \o <<"[", "]", "_">> \o LowerAZ \o <<"U+00A9", "U+00C2", "U+00E2">>

Range(s) == {s[k] : k \in DOMAIN s}
Min(S) == CHOOSE x \in S : \A y \in S : x <= y
Max(S) == CHOOSE x \in S : \A y \in S : y <= x
IndexOf(s, c) == Min({k \in DOMAIN s : s[k] = c})

Ord(c) == IndexOf(CodePointOrder, c)

\* regex \s
IsSpace(c) == c \in {" ", "\t", "\n", "\r"}
\* regex \d
IsDigit(c) == c \in Digits
\* regex [A-Z]
IsUpperAZ(c) == c \in Range(UpperAZ)
\* regex [-,\s\d]
IsYearTail(c) == c \in {"-", ","} \/ IsSpace(c) \/ IsDigit(c)
\* regex [^\n]
NotNewline(c) == c # "\n"
\* regex [^>]
NotGt(c) == c # ">"
\* str.isalpha of one character
IsAlpha(c) == c \in Range(UpperAZ) \cup Range(LowerAZ) \cup {"U+00C2", "U+00E2"}

\* str.lower of one character
LowerChar(c) ==
  IF c \in Range(UpperAZ) THEN LowerAZ[IndexOf(UpperAZ, c)]
  ELSE IF c = "U+00C2" THEN "U+00E2" ELSE c

\* ----------------------------------------------------------------- strings

\* s.lower()
Lower(s) == [k \in DOMAIN s |-> LowerChar(s[k])]

\* s.replace(a, b) for single characters a and b
Replace(s, a, b) == [k \in DOMAIN s |-> IF s[k] = a THEN b ELSE s[k]]

\* lit occurs in t at position p
LitAt(t, p, lit) ==
  /\ p >= 1
  /\ p + Len(lit) - 1 <= Len(t)
  /\ \A k \in 1..Len(lit) : t[p + k - 1] = lit[k]

\* `lit in s`
Contains(s, lit) == \E p \in 1..(Len(s) + 1) : LitAt(s, p, lit)

\* a < b for str (code point order, a proper prefix is smaller)
StrLess(a, b) ==
  \E k \in 1..(Len(b)) :
    /\ \A j \in 1..(k - 1) : j <= Len(a) /\ a[j] = b[j]
    /\ k - 1 <= Len(a)
    /\ (k > Len(a) \/ Ord(a[k]) < Ord(b[k]))

\* number of consecutive characters of t from position p on, up to the first
\* of the positions stops (those, from p on, of the characters not in a class)
RunLen(t, p, stops) ==
  IF p > Len(t) THEN 0
  ELSE IF stops = {} THEN Len(t) + 1 - p ELSE Min(stops) - p

\* the run of \s, \d, [-,\s\d], [^\n], [^>] at p
SpaceRun(t, p) == RunLen(t, p, {q \in p..Len(t) : ~IsSpace(t[q])})
DigitRun(t, p) == RunLen(t, p, {q \in p..Len(t) : ~IsDigit(t[q])})
YearTailRun(t, p) == RunLen(t, p, {q \in p..Len(t) : ~IsYearTail(t[q])})
LineRun(t, p) == RunLen(t, p, {q \in p..Len(t) : ~NotNewline(t[q])})
NotGtRun(t, p) == RunLen(t, p, {q \in p..Len(t) : ~NotGt(t[q])})

\* whitespace, as strip() takes it
Whitespace == {" ", "\t", "\n", "\r"}

\* s.rstrip(chars)
RStrip(s, chars) ==
  LET keep == {k \in DOMAIN s : s[k] \notin chars}
  IN  IF keep = {} THEN <<>> ELSE SubSeq(s, 1, Max(keep))

\* s.lstrip()
LStrip(s) ==
  LET keep == {k \in DOMAIN s : ~IsSpace(s[k])}
  IN  IF keep = {} THEN <<>> ELSE SubSeq(s, Min(keep), Len(s))

\* s.strip()
Strip(s) == LStrip(RStrip(s, Whitespace))

\* re.sub(r'\s+', ' ', s)
CollapseSpace(s) ==
  LET keep == {k \in DOMAIN s : ~IsSpace(s[k]) \/ k = 1 \/ ~IsSpace(s[k - 1])}
      nth(j) == CHOOSE k \in keep : Cardinality({m \in keep : m <= k}) = j
  IN  [j \in 1..Cardinality(keep) |->
         IF IsSpace(s[nth(j)]) THEN " " ELSE s[nth(j)]]

\* characters of rstrip('.,;:')
TrailPunct == {".", ",", ";", ":"}

\* ------------------------------------------------- valid_holder_pattern

\* Copyright\s+(?:\(c\)\s*)?(?:U+00C2 U+00A9\s*)?(?:\d{4}[-,\s\d]*\s+)?
\*   ([A-Z][^\n]{3,80}?)(?:\s*<[^>]+>)?\s*(?:\n|$)        with re.MULTILINE
\*
\* A match is <<start of group 1, end of group 1 (exclusive), end of match>>.
\* Each piece of the pattern is an operator that tries its alternatives in
\* the order the backtracking matcher tries them and returns the first that
\* lets the rest of the pattern match.

NoMatch == <<0, 0, 0>>

HolderMin == 3
HolderMax == 80
YearDigits == 4

\* The alternatives of a piece of the pattern are pairs <<rank, position>>:
\* the matcher tries them by ascending rank, and the piece matches with the
\* first alternative from whose position the rest of the pattern matches.
\* tried holds, for each alternative, its rank and what the rest of the
\* pattern gives from its position.
FirstOf(tried) ==
  LET ok == {r \in tried : r[2] # NoMatch}
  IN  IF ok = {} THEN NoMatch
      ELSE (CHOOSE r \in ok : \A o \in ok : r[1] <= o[1])[2]

\* more than any count of characters of t: the weight of an outer repetition
Weight(t) == Len(t) + 2

\* \s* (least = 0) or \s+ (least = 1) at p, greedy: the longest run first
Spaces(t, p, least) ==
  {<<SpaceRun(t, p) - k, p + k>> : k \in least..SpaceRun(t, p)}

\* a greedy optional group: the pattern without the group is tried last
Without(t, p) == {<<Weight(t) * Weight(t), p>>}

\* (?:\n|$): a newline is consumed; $ matches at the end of the text (before
\* a newline it never gets its turn, \n has matched)
re_eol(t, q, gs, ge) ==
  IF q <= Len(t) /\ t[q] = "\n" THEN <<gs, ge, q + 1>>
  ELSE IF q = Len(t) + 1 THEN <<gs, ge, q>>
  ELSE NoMatch

\* \s*(?:\n|$)
re_trail(t, q, gs, ge) ==
  FirstOf({<<a[1], re_eol(t, a[2], gs, ge)>> :
             a \in Spaces(t, q, 0)})

\* \s*<[^>]+> : \s* greedy, <, [^>]+ greedy, >
EmailAlts(t, q) ==
  UNION {
    IF LitAt(t, s[2], <<"<">>)
    THEN {<<s[1] * Weight(t) + (NotGtRun(t, s[2] + 1) - m), s[2] + m + 2>> :
            m \in {m \in 1..NotGtRun(t, s[2] + 1) :
                     LitAt(t, s[2] + m + 1, <<">">>)}}
    ELSE {} : s \in Spaces(t, q, 0)}

\* (?:\s*<[^>]+>)?
re_email(t, q, gs, ge) ==
  FirstOf({<<a[1], re_trail(t, a[2], gs, ge)>> :
             a \in EmailAlts(t, q) \cup Without(t, q)})

\* [A-Z][^\n]{3,80}? : lazy, the shortest first
HolderAlts(t, p) ==
  IF p <= Len(t) /\ IsUpperAZ(t[p])
  THEN {<<n, p + 1 + n>> :
          n \in {n \in HolderMin..HolderMax : n <= LineRun(t, p + 1)}}
  ELSE {}

\* ([A-Z][^\n]{3,80}?)
re_holder(t, p) ==
  FirstOf({<<a[1], re_email(t, a[2], p, a[2])>> :
             a \in HolderAlts(t, p)})

\* \d{4}[-,\s\d]*\s+ : [-,\s\d]* greedy, \s+ greedy
YearAlts(t, p) ==
  IF DigitRun(t, p) >= YearDigits
  THEN UNION {
         {<<(YearTailRun(t, p + YearDigits) - j) * Weight(t) + s[1], s[2]>> :
            s \in Spaces(t, p + YearDigits + j, 1)} :
         j \in 0..YearTailRun(t, p + YearDigits)}
  ELSE {}

\* (?:\d{4}[-,\s\d]*\s+)?
re_year(t, p) ==
  FirstOf({<<a[1], re_holder(t, a[2])>> :
             a \in YearAlts(t, p) \cup Without(t, p)})

\* lit\s*
MarkerAlts(t, p, lit) ==
  IF LitAt(t, p, lit) THEN Spaces(t, p + Len(lit), 0) ELSE {}

\* (?:U+00C2 U+00A9\s*)?  -- the pattern holds the two characters U+00C2 U+00A9
re_sign(t, p) ==
  FirstOf({<<a[1], re_year(t, a[2])>> :
             a \in MarkerAlts(t, p, <<"U+00C2", "U+00A9">>) \cup Without(t, p)})

\* (?:\(c\)\s*)?
re_c(t, p) ==
  FirstOf({<<a[1], re_sign(t, a[2])>> :
             a \in MarkerAlts(t, p, <<"(", "c", ")">>) \cup Without(t, p)})

\* Copyright\s+ and the rest, anchored at position i
re_match_at(t, i) ==
  IF LitAt(t, i, <<"C", "o", "p", "y", "r", "i", "g", "h", "t">>)
  THEN FirstOf({<<a[1], re_c(t, a[2])>> :
             a \in Spaces(t, i + 9, 1)})
  ELSE NoMatch

\* re.finditer(valid_holder_pattern, text, re.MULTILINE): group(1) of the
\* matches, leftmost first, each search resuming where the last match ended
RECURSIVE finditer(_, _)
finditer(t, from) ==
  LET hits == {h \in {<<i, re_match_at(t, i)>> : i \in from..Len(t)} :
                 h[2] # NoMatch}
      m == (CHOOSE h \in hits : \A o \in hits : h[1] <= o[1])[2]
  IN  IF hits = {} THEN <<>>
      ELSE <<SubSeq(t, m[1], m[2] - 1)>> \o finditer(t, m[3])

\* ------------------------------------------------------------------- inputs

MaxEntries == 2
MaxTexts == 2

SeqsUpTo(n, S) == UNION {[1..k -> S] : k \in 0..n}

\* the content of LICENSE-3rdparty.csv left by an earlier run
OldCsv == << <<"o", "l", "d">> >>

\* --- manifests (main)

\* one entry of third_party_libraries: each field is Missing (no such key),
\* None (YAML null) or a value; licenses is a List of items, an item being
\* the value of its text key
Entry(name, version, repo, lic, items) ==
  [package_name |-> name, package_version |-> version, repository |-> repo,
   license |-> lic, licenses |-> items]

Names == { Str(<<"a", ",", "b">>), Str(<<"a", ";", "b">>), Str(<<"a", "-", "b">>), Str(<<"B">>) }

ItemTexts ==
  { <<"C", "o", "p", "y", "r", "i", "g", "h", "t", " ", "2", "0", "2", "0", " ", "A", "c", "m", "e", ",", " ", "I", "n", "c", ".">>, <<"C", "o", "p", "y", "r", "i", "g", "h", "t", " ", "(", "c", ")", " ", "J", "a", "n", "e", " ", "D", "o", "e", " ", "L", "t", "d">>,
    <<"C", "o", "p", "y", "r", "i", "g", "h", "t", " ", "Z", "e", "d", " ", "C", "o", "\n">> }

\* repository, license and licenses of an entry
Bodies ==
  { <<Str(<<"u">>), Str(<<"M">>), List(<<>>)>>,
    <<Str(<<"v", ",", "w">>), Str(<<"M", ",", "A">>),
      List(<<Str(<<"C", "o", "p", "y", "r", "i", "g", "h", "t", " ", "(", "c", ")", " ", "J", "a", "n", "e", " ", "D", "o", "e", " ", "L", "t", "d">>),
             Str(<<"C", "o", "p", "y", "r", "i", "g", "h", "t", " ", "2", "0", "2", "0", " ", "A", "c", "m", "e", ",", " ", "I", "n", "c", ".">>)>>)>> }

WellFormed ==
  {Entry(n, Str(<<"1">>), b[1], b[2], b[3]) : n \in Names, b \in Bodies}

Base == Entry(Str(<<"a", "-", "b">>), Str(<<"1">>), Str(<<"u">>), Str(<<"M">>),
              List(<<Str(<<"C", "o", "p", "y", "r", "i", "g", "h", "t", " ", "Z", "e", "d", " ", "C", "o", "\n">>)>>))

\* entries with keys absent, or present with a null value
Malformed ==
  { Entry(Missing, Missing, Missing, Missing, Missing),
    [Base EXCEPT !.package_name = Missing, !.licenses = List(<<Missing>>)],
    [Base EXCEPT !.package_name = None],
    [Base EXCEPT !.package_name = None, !.licenses = List(<<>>)],
    [Base EXCEPT !.package_version = None],
    [Base EXCEPT !.repository = None],
    [Base EXCEPT !.license = None],
    [Base EXCEPT !.licenses = None],
    [Base EXCEPT !.licenses = List(<<None>>)] }

Entries == WellFormed \cup Malformed

\* lines 96-98: the text of every item of licenses
TextsOf(items) == [k \in DOMAIN items |-> Get(items[k], Str(<<>>))]

\* the license texts of the entries
EntryTexts ==
  {TextsOf(e.licenses[2]) : e \in {e \in Entries : IsList(e.licenses)}}
  \cup {<<>>}

\* --- calls of extract_copyright

XNames ==
  { Str(<<"w", "i", "d", "g", "e", "t">>), Str(<<"f", "o", "o", "-", "r", "u", "s", "t", "-", "c", "r", "a", "t", "e">>), Str(<<"d", "a", "t", "a", "d", "o", "g", "-", "t", "r", "a", "c", "e", "r">>),
    Str(<<"D", "a", "t", "a", "D", "o", "g", "-", "R", "u", "s", "t">>), Str(<<"T", "R", "U", "S", "T">>), Str(<<"l", "i", "b", "c">>), Str(<<"s", "t", "d">>),
    Str(<<"c", "o", "r", "e">>), Str(<<"L", "I", "B", "C">>), Str(<<>>) }

\* license texts with no, one or several copyright lines
XTexts ==
  { <<>>,
    <<"C", "o", "p", "y", "r", "i", "g", "h", "t", " ", "[", "y", "e", "a", "r", "]", " ", "[", "n", "a", "m", "e", " ", "o", "f", " ", "c", "o", "p", "y", "r", "i", "g", "h", "t", " ", "o", "w", "n", "e", "r", "]">>,
    <<"C", "o", "p", "y", "r", "i", "g", "h", "t", " ", "2", "0", "2", "0", " ", "T", "h", "e", " ", "F", "o", "o", " ", "C", "o", "n", "t", "r", "i", "b", "u", "t", "o", "r", "s", "\n", "A", "l", "l", " ", "r", "i", "g", "h", "t", "s", " ", "r", "e", "s", "e", "r", "v", "e", "d", ".", "\n">>,
    <<"C", "o", "p", "y", "r", "i", "g", "h", "t", " ", "I", "B", "M", "\n", "C", "o", "p", "y", "r", "i", "g", "h", "t", " ", "X", " ", "1", "2", "3", "\n">>,
    <<"C", "o", "p", "y", "r", "i", "g", "h", "t", " ", "2", "0", "1", "9", " ", "J", "o", "h", "n", " ", "R", "o", "e", "\n", "C", "o", "p", "y", "r", "i", "g", "h", "t", " ", "2", "0", "2", "0", " ", "J", "a", "n", "e", " ", "D", "o", "e", "\n">>,
    <<"C", "o", "p", "y", "r", "i", "g", "h", "t", " ", "A", "c", "m", "e", " ", "C", "o", "r", "p", " ", "L", "t", "d", ".", "\n", "\n", "C", "o", "p", "y", "r", "i", "g", "h", "t", " ", "(", "c", ")", " ", "Z", "e", "d", " ", "I", "n", "c", " ", "<", "z", "@", "z", "e", "d", ".", "i", "o", ">", "\n">>,
    <<"C", "o", "p", "y", "r", "i", "g", "h", "t", " ", "(", "c", ")", " ", "2", "0", "2", "0", " ", "J", "a", "n", "e", " ", "D", "o", "e", " ", "<", "j", "a", "n", "e", "@", "e", "x", "a", "m", "p", "l", "e", ".", "c", "o", "m", ">">> }

\* one copyright line: Copyright, a marker, a year, the holder, an email
Markers == { <<>>, <<"(", "c", ")", " ">>, <<"U+00A9", " ">> }
Years == { <<>>, <<"2", "0", "2", "0", " ">>, <<"2", "0", "1", "9", "-", "2", "0", "2", "0", " ">> }
Holders == { <<"J", "a", "n", "e", " ", "D", "o", "e">>, <<"Z", "e", "d", " ", "I", "n", "c">> }
Emails == { <<>>, <<" ", "<", "j", "a", "n", "e", "@", "e", "x", "a", "m", "p", "l", "e", ".", "c", "o", "m", ">">> }
Shapes ==
  {[marker |-> m, year |-> y, holder |-> h, email |-> e] :
     m \in Markers, y \in Years, h \in Holders, e \in Emails}
Line(shape) ==
  <<"C", "o", "p", "y", "r", "i", "g", "h", "t", " ">> \o shape.marker \o shape.year \o shape.holder \o shape.email

\* every license text of the inputs
KnownTexts == ItemTexts \cup XTexts \cup {Line(shape) : shape \in Shapes}

\* ---------------------------------------------------------- extract_copyright

template_indicators ==
  << <<"o", "w", "n", "e", "r">>, <<"h", "o", "l", "d", "e", "r">>, <<"l", "i", "c", "e", "n", "s", "o", "r">>, <<"e", "n", "t", "i", "t", "y">>, <<"p", "e", "r", "m", "i", "s", "s", "i", "o", "n">>, <<"n", "o", "t", "i", "c", "e">>,
     <<"g", "r", "a", "n", "t", "i", "n", "g">>, <<"l", "a", "w", "s">>, <<"a", "u", "t", "h", "o", "r", " ", "o", "r">>, <<"c", "o", "n", "t", "r", "i", "b", "u", "t", "o", "r", "s">>, <<"r", "e", "s", "e", "r", "v", "e", "d">>,
     <<"y", "y", "y", "y">>, <<"[", "y", "e", "a", "r", "]">>, <<"[", "n", "a", "m", "e">>, <<"<", "y", "e", "a", "r", ">">>, <<"<", "n", "a", "m", "e", ">">>, <<"a", "l", "l", " ", "r", "i", "g", "h", "t", "s">>,
     <<"s", "u", "b", "j", "e", "c", "t", " ", "t", "o">>, <<"t", "e", "r", "m", "s", " ", "a", "n", "d", " ", "c", "o", "n", "d", "i", "t", "i", "o", "n", "s">>, <<"l", "i", "c", "e", "n", "s", "e", ".">>, <<"l", "i", "c", "e", "n", "s", "e", "d", " ", "u", "n", "d", "e", "r">> >>

MinCandidateLen == 5
MaxCandidateLen == 80
MinAlphas == 3

\* lines 40-44: strip, normalise whitespace, strip trailing punctuation
Clean(group1) == RStrip(CollapseSpace(Strip(group1)), TrailPunct)

\* lines 46-57: the candidate is not skipped
Accepted(candidate) ==
  /\ ~\E k \in DOMAIN template_indicators :
        Contains(Lower(candidate), template_indicators[k])
  /\ ~(Len(candidate) < MinCandidateLen \/ Len(candidate) > MaxCandidateLen)
  /\ ~(Cardinality({k \in DOMAIN candidate : IsAlpha(candidate[k])}) < MinAlphas)

\* a wrong variant of lines 60-61: a candidate of the same length replaces too
BetterMatch_OnTies(best, candidate) ==
  IF Falsy(best) \/ Len(candidate) <= Len(best[2])
  THEN Str(candidate) ELSE best

\* lines 60-61: best after a valid candidate
BetterMatch(best, candidate) ==
  IF Falsy(best) \/ Len(candidate) < Len(best[2])
  THEN Str(candidate) ELSE best

\* lines 39-61 for one match
ScanMatch(best, group1) ==
  IF Accepted(Clean(group1)) THEN BetterMatch(best, Clean(group1))
  ELSE best

RECURSIVE ScanMatches(_, _)
ScanMatches(best, groups) ==
  IF groups = <<>> THEN best
  ELSE ScanMatches(ScanMatch(best, Head(groups)), Tail(groups))

\* finditer on the texts of the inputs, computed once
Found == {<<t, finditer(t, 1)>> : t \in KnownTexts}

\* lines 33-38: the matches of one text (an empty or None text is skipped)
MatchesOf(text) ==
  IF Falsy(text) THEN <<>>
  ELSE IF text[2] \in KnownTexts
       THEN (CHOOSE f \in Found : f[1] = text[2])[2]
  ELSE finditer(text[2], 1)

RECURSIVE ScanTexts(_, _)
ScanTexts(best, texts) ==
  IF texts = <<>> THEN best
  ELSE ScanTexts(ScanMatches(best, MatchesOf(Head(texts))),
                 Tail(texts))

core_packages == { <<"l", "i", "b", "c">>, <<"s", "t", "d">>, <<"c", "o", "r", "e">> }

\* a wrong variant of lines 66-74: rust is looked for before datadog
NameFallback_RustFirst(name) ==
  IF ~IsStr(name) THEN Raised
  ELSE IF Contains(Lower(name[2]), <<"r", "u", "s", "t">>)
          \/ name[2] \in core_packages
       THEN Str(<<"T", "h", "e", " ", "R", "u", "s", "t", " ", "P", "r", "o", "j", "e", "c", "t", " ", "D", "e", "v", "e", "l", "o", "p", "e", "r", "s">>)
  ELSE IF Contains(Lower(name[2]), <<"d", "a", "t", "a", "d", "o", "g">>)
       THEN Str(<<"D", "a", "t", "a", "d", "o", "g", ",", " ", "I", "n", "c", ".">>)
  ELSE Str(<<"T", "h", "e", " ">> \o name[2] \o <<" ", "A", "u", "t", "h", "o", "r", "s">>)

\* a wrong variant of lines 66-74: the last resort is the bare name
NameFallback_BareName(name) ==
  IF ~IsStr(name) THEN Raised
  ELSE IF Contains(Lower(name[2]), <<"d", "a", "t", "a", "d", "o", "g">>)
       THEN Str(<<"D", "a", "t", "a", "d", "o", "g", ",", " ", "I", "n", "c", ".">>)
  ELSE IF Contains(Lower(name[2]), <<"r", "u", "s", "t">>)
          \/ name[2] \in core_packages
       THEN Str(<<"T", "h", "e", " ", "R", "u", "s", "t", " ", "P", "r", "o", "j", "e", "c", "t", " ", "D", "e", "v", "e", "l", "o", "p", "e", "r", "s">>)
  ELSE Str(name[2])

\* lines 66-74: the fallback on the package name (None has no lower())
NameFallback(name) ==
  IF ~IsStr(name) THEN Raised
  ELSE IF Contains(Lower(name[2]), <<"d", "a", "t", "a", "d", "o", "g">>)
       THEN Str(<<"D", "a", "t", "a", "d", "o", "g", ",", " ", "I", "n", "c", ".">>)
  ELSE IF Contains(Lower(name[2]), <<"r", "u", "s", "t">>)
          \/ name[2] \in core_packages
       THEN Str(<<"T", "h", "e", " ", "R", "u", "s", "t", " ", "P", "r", "o", "j", "e", "c", "t", " ", "D", "e", "v", "e", "l", "o", "p", "e", "r", "s">>)
  ELSE Str(<<"T", "h", "e", " ">> \o name[2] \o <<" ", "A", "u", "t", "h", "o", "r", "s">>)

\* lines 63-74
Result(best, name) ==
  IF ~Falsy(best) THEN best ELSE NameFallback(name)

\* lines 32-61 on the license texts of the entries, computed once
Scanned == {<<texts, ScanTexts(None, texts)>> : texts \in EntryTexts}

BestOf(texts) ==
  IF texts \in EntryTexts
  THEN (CHOOSE s \in Scanned : s[1] = texts)[2]
  ELSE ScanTexts(None, texts)

extract_copyright(texts, name) ==
  Result(BestOf(texts), name)

\* ------------------------------------------------------------ the manifest

\* a wrong variant of line 92: no name is ever taken as seen
AlreadySeen_Never(comps, name) == FALSE

\* line 92: name in comps
AlreadySeen(comps, name) ==
  \E k \in DOMAIN comps : comps[k].component = name

\* lines 102-111: the aggregator's own fallback
SecondaryFallback(name, repository) ==
  IF Contains(Lower(name[2]), <<"r", "u", "s", "t">>)
     \/ Contains(Lower(repository[2]), <<"r", "u", "s", "t">>)
  THEN Str(<<"T", "h", "e", " ", "R", "u", "s", "t", " ", "P", "r", "o", "j", "e", "c", "t", " ", "D", "e", "v", "e", "l", "o", "p", "e", "r", "s">>)
  ELSE IF Contains(Lower(repository[2]), <<"d", "a", "t", "a", "d", "o", "g">>)
       THEN Str(<<"D", "a", "t", "a", "d", "o", "g", ",", " ", "I", "n", "c", ".">>)
  ELSE Str(name[2] \o <<" ", "A", "u", "t", "h", "o", "r", "s">>)

\* lines 113-118: comps[name] = {...} on an insertion-ordered dict
DictSet(comps, summary) ==
  IF \E k \in DOMAIN comps : comps[k].component = summary.component
  THEN [k \in DOMAIN comps |->
          IF comps[k].component = summary.component
          THEN summary ELSE comps[k]]
  ELSE Append(comps, summary)

\* ------------------------------------------------------------------ write_csv

Header == <<"C", "o", "m", "p", "o", "n", "e", "n", "t", ",", "O", "r", "i", "g", "i", "n", ",", "L", "i", "c", "e", "n", "s", "e", ",", "C", "o", "p", "y", "r", "i", "g", "h", "t">>

\* line 129: the sort key
SortKey(summary) == Lower(summary.component[2])

\* sorted() is stable: an element goes before the first one with a larger key
SortedInsert(done, summary) ==
  LET later == {k \in DOMAIN done : StrLess(SortKey(summary), SortKey(done[k]))}
      at == IF later = {} THEN Len(done) + 1 ELSE Min(later)
  IN  SubSeq(done, 1, at - 1) \o <<summary>> \o SubSeq(done, at, Len(done))

RECURSIVE SortedFrom(_, _)
SortedFrom(done, rest) ==
  IF rest = <<>> THEN done
  ELSE SortedFrom(SortedInsert(done, Head(rest)), Tail(rest))

\* line 129: sorted(comps.values(), key=lambda x: x['component'].lower())
Sorted(comps) == SortedFrom(<<>>, comps)

\* a wrong variant of lines 131-134: the field is written as it is
Escape_Nothing(field) == field

\* lines 131-134: escape commas in a field
Escape(field) == Replace(field, ",", ";")

\* line 136: the row, without its line end
Row(summary) ==
  Escape(summary.component[2]) \o <<",">> \o Escape(summary.origin[2])
  \o <<",">> \o Escape(summary.license[2]) \o <<",">>
  \o Escape(summary.copyright[2])

\* ---------------------------------------------------------------- the state

VARIABLES
  pc,             \* where main is
  yml_exists,     \* libdatadog/LICENSE-3rdparty.yml exists
  manifest,       \* third_party_libraries of the manifest file
  next_lib,       \* index of the entry the loop of parse_yml_to_csv is at
  components,     \* the OrderedDict, as the sequence of its values
  fallback_used,  \* lines 103-111 have run
  pending,        \* the sorted summaries write_csv has still to write
  csv,            \* the lines of LICENSE-3rdparty.csv
  stdout, stderr, \* the lines printed
  exit_code,      \* -1 while running
  reads, writes,  \* open() calls on the manifest and on the output
  \* one call of extract_copyright, step by step
  xpc, license_texts, package_name, text_i, matches, best_match, returned

main_vars == <<pc, yml_exists, manifest, next_lib, components, fallback_used,
               pending, csv, stdout, stderr, exit_code, reads, writes>>
x_vars == <<xpc, license_texts, package_name, text_i, matches, best_match,
            returned>>
vars == <<main_vars, x_vars>>

\* ------------------------------------------------------------------- main

XIdle ==
  /\ xpc = "idle" /\ license_texts = <<>> /\ package_name = None
  /\ text_i = 0 /\ matches = <<>> /\ best_match = None /\ returned = None

Init ==
  /\ pc = "main"
  /\ yml_exists \in BOOLEAN
  /\ manifest \in SeqsUpTo(MaxEntries, Entries)
  /\ next_lib = 0
  /\ components = <<>>
  /\ fallback_used = FALSE
  /\ pending = <<>>
  /\ csv = OldCsv
  /\ stdout = <<>>
  /\ stderr = <<>>
  /\ exit_code = -1
  /\ reads = 0
  /\ writes = 0
  /\ XIdle

\* an uncaught exception: the traceback goes to stderr, the exit code is 1
Abort ==
  /\ pc' = "exit"
  /\ exit_code' = 1
  /\ stderr' = Append(stderr, "Traceback")

\* a wrong variant of line 142: the manifest is taken to be there
Exists_Always(present) == TRUE

\* line 142: the manifest is there
Exists(present) == present

\* lines 140-142
CheckExists ==
  /\ pc = "main"
  /\ pc' = IF Exists(yml_exists) THEN "load" ELSE "err1"
  /\ UNCHANGED <<x_vars, yml_exists, manifest, next_lib, components, fallback_used,
                 pending, csv, stdout, stderr, exit_code, reads, writes>>

\* line 143
PrintNotFound ==
  /\ pc = "err1"
  /\ stderr' = Append(stderr, "Error: not found")
  /\ pc' = "err2"
  /\ UNCHANGED <<x_vars, yml_exists, manifest, next_lib, components, fallback_used,
                 pending, csv, stdout, exit_code, reads, writes>>

\* line 144
PrintHint ==
  /\ pc = "err2"
  /\ stderr' = Append(stderr, "Please ensure")
  /\ pc' = "exit1"
  /\ UNCHANGED <<x_vars, yml_exists, manifest, next_lib, components, fallback_used,
                 pending, csv, stdout, exit_code, reads, writes>>

\* line 145: sys.exit(1)
SysExit ==
  /\ pc = "exit1"
  /\ exit_code' = 1
  /\ pc' = "exit"
  /\ UNCHANGED <<x_vars, yml_exists, manifest, next_lib, components, fallback_used,
                 pending, csv, stdout, stderr, reads, writes>>

\* lines 147-148, 79-83: the manifest is opened and loaded
Load ==
  /\ pc = "load"
  /\ stdout' = Append(stdout, "Reading")
  /\ reads' = reads + 1
  /\ next_lib' = 1
  /\ components' = <<>>
  /\ pc' = "parse"
  /\ UNCHANGED <<x_vars, yml_exists, manifest, fallback_used, pending, csv, stderr,
                 exit_code, writes>>

\* lines 85-118: one turn of the loop over third_party_libraries
ParseEntry ==
  /\ pc = "parse"
  /\ next_lib <= Len(manifest)
  /\ LET lib == manifest[next_lib]
         name == Get(lib.package_name, Str(<<>>))
         repo == Get(lib.repository, Str(<<>>))
         license_id == Get(lib.license, Str(<<>>))
         items == Get(lib.licenses, List(<<>>))
     IN  IF AlreadySeen(components, name)
         THEN /\ next_lib' = next_lib + 1
              /\ UNCHANGED <<pc, components, fallback_used, stderr, exit_code>>
         ELSE IF IsNone(items)
         THEN /\ Abort
              /\ UNCHANGED <<next_lib, components, fallback_used>>
         ELSE \E holder \in {extract_copyright(TextsOf(items[2]), name)} :
                IF holder = Raised
                THEN /\ Abort
                     /\ UNCHANGED <<next_lib, components, fallback_used>>
                ELSE /\ next_lib' = next_lib + 1
                     /\ fallback_used' = (fallback_used \/ Falsy(holder))
                     /\ components' =
                          DictSet(components,
                                  [component |-> name, origin |-> repo,
                                   license |-> license_id,
                                   copyright |->
                                     IF Falsy(holder)
                                     THEN SecondaryFallback(name, repo)
                                     ELSE holder])
                     /\ UNCHANGED <<pc, stderr, exit_code>>
  /\ UNCHANGED <<x_vars, yml_exists, manifest, pending, csv, stdout, reads, writes>>

\* lines 120, 150-153: the loop is over
ParseDone ==
  /\ pc = "parse"
  /\ next_lib > Len(manifest)
  /\ stdout' = stdout \o <<"Found", "Writing">>
  /\ pc' = "open"
  /\ UNCHANGED <<x_vars, yml_exists, manifest, next_lib, components, fallback_used,
                 pending, csv, stderr, exit_code, reads, writes>>

\* lines 124-126: the output is opened (truncated) and the header written
OpenCsv ==
  /\ pc = "open"
  /\ writes' = writes + 1
  /\ csv' = <<Header>>
  /\ pc' = "sort"
  /\ UNCHANGED <<x_vars, yml_exists, manifest, next_lib, components, fallback_used,
                 pending, stdout, stderr, exit_code, reads>>

\* line 129: sorted(); None has no lower()
SortComponents ==
  /\ pc = "sort"
  /\ IF \E k \in DOMAIN components : ~IsStr(components[k].component)
     THEN Abort /\ UNCHANGED pending
     ELSE /\ pending' = Sorted(components)
          /\ pc' = "rows"
          /\ UNCHANGED <<stderr, exit_code>>
  /\ UNCHANGED <<x_vars, yml_exists, manifest, next_lib, components, fallback_used,
                 csv, stdout, reads, writes>>

\* lines 129-136: one row; None has no replace()
WriteRow ==
  /\ pc = "rows"
  /\ pending # <<>>
  /\ LET summary == Head(pending)
     IN  IF IsStr(summary.component) /\ IsStr(summary.origin)
            /\ IsStr(summary.license) /\ IsStr(summary.copyright)
         THEN /\ csv' = Append(csv, Row(summary))
              /\ pending' = Tail(pending)
              /\ UNCHANGED <<pc, stderr, exit_code>>
         ELSE Abort /\ UNCHANGED <<csv, pending>>
  /\ UNCHANGED <<x_vars, yml_exists, manifest, next_lib, components, fallback_used,
                 stdout, reads, writes>>

\* lines 154-156: the file is closed, main returns
Finish ==
  /\ pc = "rows"
  /\ pending = <<>>
  /\ stdout' = Append(stdout, "OK")
  /\ exit_code' = 0
  /\ pc' = "exit"
  /\ UNCHANGED <<x_vars, yml_exists, manifest, next_lib, components, fallback_used,
                 pending, csv, stderr, reads, writes>>

Next ==
  \/ CheckExists
  \/ PrintNotFound
  \/ PrintHint
  \/ SysExit
  \/ Load
  \/ ParseEntry
  \/ ParseDone
  \/ OpenCsv
  \/ SortComponents
  \/ WriteRow
  \/ Finish

Spec == Init /\ [][Next]_vars

\* ------------------------------------------- extract_copyright, step by step

MainIdle ==
  /\ pc = "idle" /\ yml_exists = FALSE /\ manifest = <<>> /\ next_lib = 0
  /\ components = <<>> /\ fallback_used = FALSE /\ pending = <<>>
  /\ csv = OldCsv /\ stdout = <<>> /\ stderr = <<>> /\ exit_code = -1
  /\ reads = 0 /\ writes = 0

\* the inputs of one call
Calls ==
  (SeqsUpTo(MaxTexts, {Str(t) : t \in XTexts} \cup {None})
     \X {Str(<<"w", "i", "d", "g", "e", "t">>), Str(<<"D", "a", "t", "a", "D", "o", "g", "-", "R", "u", "s", "t">>)})
  \cup (SeqsUpTo(1, {Str(t) : t \in XTexts} \cup {None}) \X XNames)
  \cup ({<<Str(Line(shape))>> : shape \in Shapes}
          \X {Str(<<"w", "i", "d", "g", "e", "t">>), Str(<<"l", "i", "b", "c">>)})

InitX ==
  /\ MainIdle
  /\ xpc = "scan"
  /\ \E call \in Calls : license_texts = call[1] /\ package_name = call[2]
  /\ text_i = 0
  /\ matches = <<>>
  /\ best_match = None
  /\ returned = None

\* lines 33-38: the next text; its matches are those of finditer
NextText ==
  /\ xpc = "scan"
  /\ matches = <<>>
  /\ text_i < Len(license_texts)
  /\ text_i' = text_i + 1
  /\ matches' = MatchesOf(license_texts[text_i + 1])
  /\ UNCHANGED <<main_vars, xpc, license_texts, package_name, best_match,
                 returned>>

\* lines 39-61: the next match of the text
NextMatch ==
  /\ xpc = "scan"
  /\ matches # <<>>
  /\ best_match' = ScanMatch(best_match, Head(matches))
  /\ matches' = Tail(matches)
  /\ UNCHANGED <<main_vars, xpc, license_texts, package_name, text_i,
                 returned>>

\* lines 63-74: the texts are done
Return ==
  /\ xpc = "scan"
  /\ matches = <<>>
  /\ text_i = Len(license_texts)
  /\ returned' = Result(best_match, package_name)
  /\ xpc' = "done"
  /\ UNCHANGED <<main_vars, license_texts, package_name, text_i, matches,
                 best_match>>

NextX ==
  \/ NextText
  \/ NextMatch
  \/ Return

SpecX == InitX /\ [][NextX]_vars

\* --------------------------------------------------------------- properties

\* the name an entry is keyed by
NameOf(lib) == Get(lib.package_name, Str(<<>>))

\* the entries the loop has gone through
Processed == 1..(next_lib - 1)

\* the first entry of the manifest with the name of entry j
FirstNamed(j) ==
  manifest[Min({f \in 1..j : NameOf(manifest[f]) = NameOf(manifest[j])})]

\* C1: first wins.  Every name the loop has met has one summary, and its
\* origin, license and copyright are those of the first entry of that name;
\* a later entry of the name adds and changes nothing.
C1_FirstWins ==
  /\ Len(components) = Cardinality({NameOf(manifest[j]) : j \in Processed})
  /\ \A j \in Processed :
       \E k \in DOMAIN components :
         /\ components[k].component = NameOf(manifest[j])
         /\ components[k].origin = Get(FirstNamed(j).repository, Str(<<>>))
         /\ components[k].license = Get(FirstNamed(j).license, Str(<<>>))
         /\ components[k].copyright =
              extract_copyright(
                TextsOf(Get(FirstNamed(j).licenses, List(<<>>))[2]),
                NameOf(manifest[j]))

\* a run that met the same name twice, with another origin the second time
C1_Witness ==
  /\ pc = "exit" /\ exit_code = 0
  /\ Len(manifest) = 2
  /\ NameOf(manifest[1]) = NameOf(manifest[2])
  /\ manifest[1].repository # manifest[2].repository
  /\ manifest[1].licenses # manifest[2].licenses
  /\ Len(components) = 1

\* the fields of a row of the output: the text between its commas
Fields(row) ==
  LET commas == {k \in DOMAIN row : row[k] = ","}
      cut(j) == IF j = 0 THEN 0
                ELSE IF j > Cardinality(commas) THEN Len(row) + 1
                ELSE CHOOSE k \in commas :
                       Cardinality({m \in commas : m <= k}) = j
  IN  [j \in 1..(Cardinality(commas) + 1) |->
         SubSeq(row, cut(j - 1) + 1, cut(j) - 1)]

\* the rows of the output below the header, once the output has been opened
BodyRows == IF writes = 0 THEN {} ELSE 2..Len(csv)

\* C2: no two rows of the output have the same Component column.
C2_UniqueComponentColumn ==
  \A j, k \in BodyRows : j # k => Fields(csv[j])[1] # Fields(csv[k])[1]

\* C3: the rows of the output are in non-decreasing order of the lowercase of
\* the component name they show.
C3_RowsSortedAsShown ==
  \A k \in BodyRows :
    k + 1 \in BodyRows =>
      ~StrLess(Lower(Fields(csv[k + 1])[1]), Lower(Fields(csv[k])[1]))

\* out is src with every comma replaced by a semicolon and nothing else changed
CommasToSemicolons(src, out) ==
  /\ Len(out) = Len(src)
  /\ \A i \in DOMAIN src : out[i] = IF src[i] = "," THEN ";" ELSE src[i]

\* C4: every row of the output holds exactly three commas, and its four fields
\* are the component, origin, license and copyright of a summary with every
\* comma replaced by a semicolon.
C4_Escaped ==
  \A k \in BodyRows :
    /\ Cardinality({i \in DOMAIN csv[k] : csv[k][i] = ","}) = 3
    /\ \E c \in DOMAIN components :
         /\ CommasToSemicolons(components[c].component[2], Fields(csv[k])[1])
         /\ CommasToSemicolons(components[c].origin[2], Fields(csv[k])[2])
         /\ CommasToSemicolons(components[c].license[2], Fields(csv[k])[3])
         /\ CommasToSemicolons(components[c].copyright[2], Fields(csv[k])[4])

\* a row written from a summary with a comma in each of its four fields
C4_Witness ==
  \E k \in BodyRows, c \in DOMAIN components :
    /\ "," \in Range(components[c].component[2])
    /\ "," \in Range(components[c].origin[2])
    /\ "," \in Range(components[c].license[2])
    /\ "," \in Range(components[c].copyright[2])
    /\ Len(Fields(csv[k])) = 4
    /\ CommasToSemicolons(components[c].component[2], Fields(csv[k])[1])
    /\ CommasToSemicolons(components[c].copyright[2], Fields(csv[k])[4])

\* C5: extract_copyright never returns an empty string, so the aggregator's
\* own fallback never runs and every stored copyright is a non-empty string,
\* the one extract_copyright returned.
C5_NeverEmpty ==
  /\ ~fallback_used
  /\ \A k \in DOMAIN components :
       /\ IsStr(components[k].copyright)
       /\ components[k].copyright[2] # <<>>
       /\ \E j \in Processed :
            /\ NameOf(manifest[j]) = components[k].component
            /\ components[k].copyright =
                 extract_copyright(
                   TextsOf(Get(manifest[j].licenses, List(<<>>))[2]),
                   NameOf(manifest[j]))

\* an entry with no name and no license text has been given a copyright
C5_Witness ==
  /\ ~fallback_used
  /\ \E k \in DOMAIN components :
       /\ components[k].component = Str(<<>>)
       /\ components[k].copyright = Str(<<"T", "h", "e", " ", " ", "A", "u", "t", "h", "o", "r", "s">>)
       /\ manifest[1].licenses = Missing

\* C7: with no manifest, main prints two lines to stderr and exits with 1,
\* reading and writing nothing; a run that exits with 0 has read the manifest
\* once and written the output once, after the loop over the entries.
C7_MissingInput ==
  /\ ~yml_exists =>
       /\ reads = 0 /\ writes = 0 /\ csv = OldCsv /\ stdout = <<>>
       /\ exit_code \in {-1, 1}
       /\ exit_code = 1 => stderr = <<"Error: not found", "Please ensure">>
       /\ pc = "exit" => exit_code = 1
  /\ exit_code = 0 => yml_exists /\ reads = 1 /\ writes = 1 /\ stderr = <<>>
  /\ reads <= 1 /\ writes <= 1
  /\ writes > 0 => reads = 1 /\ next_lib = Len(manifest) + 1

\* main has exited for want of a manifest
C7_Witness ==
  /\ pc = "exit" /\ ~yml_exists /\ manifest # <<>>
  /\ exit_code = 1 /\ Len(stderr) = 2 /\ csv = OldCsv

\* C8: whatever an entry looks like, a manifest that is there is processed to
\* the end and the output written in full, with no error.
C8_NoEntryAborts ==
  yml_exists =>
    /\ "Traceback" \notin Range(stderr)
    /\ exit_code # 1
    /\ pc = "exit" =>
         /\ next_lib = Len(manifest) + 1
         /\ Len(csv) = Len(components) + 1

\* the part of C8 that holds: an entry with keys absent, none of them null,
\* is read as if each absent key held the empty string
OnlyAbsentKeys(lib) ==
  /\ \A f \in DOMAIN lib : lib[f] # None
  /\ IsList(lib.licenses) => \A k \in DOMAIN lib.licenses[2] :
                                lib.licenses[2][k] # None

AbsentKeysAreEmpty ==
  (yml_exists /\ \A j \in DOMAIN manifest : OnlyAbsentKeys(manifest[j]))
    => exit_code # 1

\* ------------------------------------------- properties of extract_copyright

RECURSIVE GroupsUpTo(_, _)
GroupsUpTo(texts, n) ==
  IF n = 0 THEN <<>> ELSE GroupsUpTo(texts, n - 1) \o MatchesOf(texts[n])

\* the candidates scanned so far that passed the filters, in scan order
Survivors ==
  LET all == GroupsUpTo(license_texts, text_i)
      scanned == SubSeq(all, 1, Len(all) - Len(matches))
  IN  SelectSeq([k \in DOMAIN scanned |-> Clean(scanned[k])], Accepted)

\* word occurs in s, whatever the case of the letters of s
ContainsAnyCase(s, word) ==
  \E p \in 1..(Len(s) - Len(word) + 1) :
    \A k \in DOMAIN word : LowerChar(s[p + k - 1]) = word[k]

FirstShortest(best, candidates) ==
  \E k \in DOMAIN candidates :
    /\ best = Str(candidates[k])
    /\ \A j \in DOMAIN candidates : Len(candidates[j]) >= Len(candidates[k])
    /\ \A j \in 1..(k - 1) : Len(candidates[j]) > Len(candidates[k])

\* C9: the best match is a shortest surviving candidate, the first of them in
\* scan order, and it is what the call returns when there is one.
C9_ShortestFirst ==
  \A candidates \in {Survivors} :
    IF candidates = <<>> THEN Falsy(best_match)
    ELSE /\ FirstShortest(best_match, candidates)
         /\ xpc = "done" => returned = best_match

\* two different candidates of the shortest length
C9_Witness ==
  /\ xpc = "done"
  /\ \E candidates \in {Survivors} :
       \E j, k \in DOMAIN candidates :
         /\ j < k
         /\ Len(candidates[j]) = Len(candidates[k])
         /\ candidates[j] # candidates[k]
         /\ \A i \in DOMAIN candidates :
              Len(candidates[i]) >= Len(candidates[j])
         /\ returned = Str(candidates[j])

\* C10: from a line made of Copyright, a marker "(c)" or U+00A9, a year, a
\* holder and an email, the holder alone is extracted; the template line
\* gives no candidate.
C10_HolderOfLine ==
  xpc = "done" =>
    /\ \A shape \in Shapes :
         license_texts = <<Str(Line(shape))>> => returned = Str(shape.holder)
    /\ license_texts = <<Str(<<"C", "o", "p", "y", "r", "i", "g", "h", "t", " ", "[", "y", "e", "a", "r", "]", " ", "[", "n", "a", "m", "e", " ", "o", "f", " ", "c", "o", "p", "y", "r", "i", "g", "h", "t", " ", "o", "w", "n", "e", "r", "]">>)>>
         => Survivors = <<>>

\* the part of C10 that holds: lines with no marker or with "(c)"
HolderOfAsciiLine ==
  xpc = "done" =>
    \A shape \in Shapes :
      (shape.marker # <<"U+00A9", " ">> /\ license_texts = <<Str(Line(shape))>>)
        => returned = Str(shape.holder)

====
